---------------------------- MODULE Spec2Model ----------------------------
(***************************************************************************)
(* Model of miden-client-tools (src/src/lib.rs): the signature-advice      *)
(* generator mul_modulo_p / to_elements /                                  *)
(* generate_advice_stack_from_signature, and the helpers that drive a      *)
(* miden Client: wait_for_note, setup_accounts_and_faucets and             *)
(* mint_from_faucet_for_account.                                           *)
(*                                                                         *)
(* Numbers.  TLC integers are 32 bits wide, the program's are 64 bits wide.*)
(* A u64 is therefore kept as its Limbs = 8 base-2^8 digits, least         *)
(* significant first, and u64 arithmetic is done digit by digit, so the    *)
(* model multiplies, adds, overflows and wraps exactly where a u64 does.   *)
(* A Felt is the record [felt |-> u] whose u is the canonical              *)
(* representative in [0, M), M = 2^64 - 2^32 + 1.                          *)
(***************************************************************************)
EXTENDS Integers, Sequences, FiniteSets, TLC

\* const N: usize = 512 (lib.rs:106), scaled down: the number of
\* coefficients of a polynomial the code reads.
N == 2

\* One digit of a u64 holds 8 bits; a u64 has 64 / 8 digits.
Base == 2 ^ 8
Limbs == 64 \div 8

---------------------------------------------------------------------------
(* Natural numbers as digit sequences *)

\* The number n < 2^31 as `len` digits.
RECURSIVE ToDigits(_, _)
ToDigits(n, len) ==
    IF len = 0 THEN <<>> ELSE <<n % Base>> \o ToDigits(n \div Base, len - 1)

\* Carry propagation: the number whose digit k has weight ws[k] (any integer),
\* as `len` proper digits (the value modulo Base^len).
RECURSIVE Propagate(_, _, _)
Propagate(ws, carry, len) ==
    IF len = 0 THEN <<>>
    ELSE LET w == (IF ws = <<>> THEN 0 ELSE Head(ws)) + carry
         IN  <<w % Base>>
             \o Propagate(IF ws = <<>> THEN <<>> ELSE Tail(ws), w \div Base, len - 1)

\* x zero-extended to len digits.
Extend(x, len) == [k \in 1..len |-> IF k <= Len(x) THEN x[k] ELSE 0]

\* x + y, exact, in len digits (len large enough for the sum).
AddExact(x, y, len) ==
    Propagate([k \in 1..len |-> Extend(x, len)[k] + Extend(y, len)[k]], 0, len)

\* Sum over i of x[i] * y[k + 1 - i]: the weight of digit k of the product.
RECURSIVE DigitProducts(_, _, _, _)
DigitProducts(x, y, k, i) ==
    IF i > Len(x) THEN 0
    ELSE (IF k + 1 - i >= 1 /\ k + 1 - i <= Len(y) THEN x[i] * y[k + 1 - i] ELSE 0)
         + DigitProducts(x, y, k, i + 1)

\* x * y, exact, in Len(x) + Len(y) digits.
MulExact(x, y) ==
    Propagate([k \in 1..(Len(x) + Len(y)) |-> DigitProducts(x, y, k, 1)],
              0, Len(x) + Len(y))

\* x < y for digit sequences of one length.
RECURSIVE Less(_, _)
Less(x, y) ==
    IF x = <<>> THEN FALSE
    ELSE LET n == Len(x)
         IN  IF x[n] # y[n] THEN x[n] < y[n]
             ELSE Less(SubSeq(x, 1, n - 1), SubSeq(y, 1, n - 1))

\* Some digit above position n is set: the number does not fit n digits.
Exceeds(x, n) == \E k \in (n + 1)..Len(x) : x[k] # 0

---------------------------------------------------------------------------
(* u64 and Felt *)

U64(n) == ToDigits(n, Limbs)


\* The field modulus of Felt, 2^64 - 2^32 + 1 = 0xFFFFFFFF00000001.
M == <<1, 0, 0, 0, 255, 255, 255, 255>>

\* Variant: `=` written for `+=`, the entry is overwritten.
U64Add_assigns(x, y) == [overflow |-> FALSE, value |-> y]

\* u64 `+=` of the accumulator: whether the sum overflows, and the wrapped sum.
U64Add(x, y) ==
    LET s == AddExact(x, y, Limbs + 1)
    IN  [overflow |-> Exceeds(s, Limbs), value |-> SubSeq(s, 1, Limbs)]

\* Variant: `+` written for `*`.
U64Mul_adds(x, y) ==
    LET s == AddExact(x, y, Limbs + 1)
    IN  [overflow |-> Exceeds(s, Limbs), value |-> SubSeq(s, 1, Limbs)]

\* u64 `*`: whether the product overflows, and the wrapped product.
U64Mul(x, y) ==
    LET p == MulExact(x, y)
    IN  [overflow |-> Exceeds(p, Limbs), value |-> SubSeq(p, 1, Limbs)]

\* Felt::new(value: u64): the element value mod M.  value < 2^64 < 2 * M, so
\* one subtraction reduces it.
Felt_new(u) ==
    [felt |-> IF Less(u, M) THEN u
              ELSE Propagate([k \in 1..Limbs |-> u[k] - M[k]], 0, Limbs)]

\* Felt::as_int / u64::from(Felt): the canonical representative.
as_int(e) == e.felt

---------------------------------------------------------------------------
(* State *)

VARIABLES
    overflow_checks,  \* the build: TRUE = overflow checks on (debug profile),
                      \* FALSE = off (release profile, u64 arithmetic wraps)
    pc,               \* where generate_advice_stack_from_signature stands
    h, s2,            \* its arguments: Polynomial<Felt>
    c,                \* mul_modulo_p: the accumulator [u64; 2 * N]
    i,                \* mul_modulo_p: the outer loop index
    polynomials,      \* Vec<Felt>: h, s2, pi laid in order
    advice_stack,     \* Vec<u64>: the tape
    panic,            \* the panic message when pc = "panicked"
    remembered,       \* observer: one earlier call, its arguments and results
    since,            \* observer: the call under way is the remembered one
                      \* ("same"), the next one ("next") or a later one ("later")
    client,           \* the Client: its output notes, accounts, submitted
                      \* transactions
    wait,             \* the frame of wait_for_note
    setup,            \* the frame of setup_accounts_and_faucets
    mint              \* the frame of mint_from_faucet_for_account

advice_vars ==
    <<overflow_checks, pc, h, s2, c, i, polynomials, advice_stack, panic,
      remembered, since>>

client_vars == <<client, wait, setup, mint>>

vars == <<advice_vars, client_vars>>

\* Coefficient values the calls are made with: 0, 1, 2^32 - 1 and 2^32 + 1.
\* (2^32-1)^2 fits a u64, two of them do not; (2^32-1)(2^32+1) = 2^64 - 1 lies
\* in [M, 2^64); (2^32+1)^2 does not fit a u64.
Coeffs ==
    { Felt_new(U64(0)), Felt_new(U64(1)),
      Felt_new(<<255, 255, 255, 255, 0, 0, 0, 0>>),
      Felt_new(<<1, 0, 0, 0, 1, 0, 0, 0>>) }

\* Two values used where the number of inputs has to stay small: 1 and
\* X = 2^63 - 1.  X + X = 2^64 - 2 lies in [M, 2^64); X * X does not fit a u64.
FewCoeffs ==
    { Felt_new(U64(1)), Felt_new(<<255, 255, 255, 255, 255, 255, 255, 127>>) }

\* Polynomial<Felt> { coefficients: Vec<Felt> }
Polynomial(coefficients) == [coefficients |-> coefficients]

\* The coefficient list is a Vec: a polynomial of any length can be passed.
\* Those of N coefficients take every value of Coeffs, those of N - 1 and of
\* N + 1 coefficients the values of FewCoeffs.
Polynomials ==
    { Polynomial(cs) : cs \in [1..N -> Coeffs] \cup [1..(N - 1) -> FewCoeffs]
                                \cup [1..(N + 1) -> FewCoeffs] }

FewPolynomials == { Polynomial(cs) : cs \in [1..N -> FewCoeffs] }

---------------------------------------------------------------------------
(* mul_modulo_p *)

\* Variant: the accumulator is a buffer kept from call to call and not cleared.
new_accumulator_stale ==
    IF c = <<>> THEN [k \in 1..(2 * N) |-> U64(0)] ELSE c

\* let mut c = [0; 2 * N]
new_accumulator == [k \in 1..(2 * N) |-> U64(0)]

\* Variant: c[i] written for c[i + j].
RECURSIVE mul_row_index(_, _, _, _, _, _)
mul_row_index(acc, a, b, row, j, checks) ==
    IF j = N THEN [panic |-> "", c |-> acc]
    ELSE IF row >= Len(a.coefficients) \/ j >= Len(b.coefficients)
    THEN [panic |-> "index out of bounds", c |-> acc]
    ELSE LET prod == U64Mul(as_int(a.coefficients[row + 1]),
                            as_int(b.coefficients[j + 1]))
             sum  == U64Add(acc[row + 1], prod.value)
         IN  IF checks /\ prod.overflow
             THEN [panic |-> "attempt to multiply with overflow", c |-> acc]
             ELSE IF checks /\ sum.overflow
             THEN [panic |-> "attempt to add with overflow", c |-> acc]
             ELSE mul_row_index([acc EXCEPT ![row + 1] = sum.value],
                                a, b, row, j + 1, checks)

\* for j in 0..N { c[i + j] += a.coefficients[i].as_int() * b.coefficients[j].as_int(); }
\* from column j on.  Indexing a Vec past its end panics; with overflow checks
\* an overflowing * or += panics, without them it wraps.
RECURSIVE mul_row(_, _, _, _, _, _)
mul_row(acc, a, b, row, j, checks) ==
    IF j = N THEN [panic |-> "", c |-> acc]
    ELSE IF row >= Len(a.coefficients) \/ j >= Len(b.coefficients)
    THEN [panic |-> "index out of bounds", c |-> acc]
    ELSE LET prod == U64Mul(as_int(a.coefficients[row + 1]),
                            as_int(b.coefficients[j + 1]))
             sum  == U64Add(acc[row + j + 1], prod.value)
         IN  IF checks /\ prod.overflow
             THEN [panic |-> "attempt to multiply with overflow", c |-> acc]
             ELSE IF checks /\ sum.overflow
             THEN [panic |-> "attempt to add with overflow", c |-> acc]
             ELSE mul_row([acc EXCEPT ![row + j + 1] = sum.value],
                          a, b, row, j + 1, checks)

\* for i in 0..N { ... } from row `row` on.
RECURSIVE mul_rows(_, _, _, _, _)
mul_rows(acc, a, b, row, checks) ==
    IF row = N THEN [panic |-> "", c |-> acc]
    ELSE LET r == mul_row(acc, a, b, row, 0, checks)
         IN  IF r.panic # "" THEN r ELSE mul_rows(r.c, a, b, row + 1, checks)

\* mul_modulo_p(a, b) as one function: its panic, or "" and the returned c.
mul_modulo_p(a, b, checks) == mul_rows(new_accumulator, a, b, 0, checks)

---------------------------------------------------------------------------
(* generate_advice_stack_from_signature *)

\* to_elements(poly): poly.coefficients.to_vec(), every coefficient.
to_elements(poly) == poly.coefficients

\* Variant: s2 laid before h.
lay_polynomials_swapped(ph, ps2, pi) ==
    to_elements(ps2) \o to_elements(ph) \o [k \in 1..Len(pi) |-> Felt_new(pi[k])]

\* polynomials = to_elements(h) ++ to_elements(s2) ++ pi.map(Felt::new)
lay_polynomials(ph, ps2, pi) ==
    to_elements(ph) \o to_elements(ps2) \o [k \in 1..Len(pi) |-> Felt_new(pi[k])]

\* Hasher::hash_elements (Rpo256, an external crate): an ideal hash.  Output k
\* of the digest of elems is the term <<"rpo", k, elems>>: a function of elems,
\* different for different elems.
Hasher_hash_elements(elems) == [k \in 0..3 |-> [felt |-> <<"rpo", k, elems>>]]

\* Variant: the digest is taken before pi is appended, over h and s2 alone.
challenge_of_inputs(elems) ==
    LET digest_polynomials == Hasher_hash_elements(SubSeq(elems, 1, Len(elems) - 2 * N))
    IN  <<digest_polynomials[0], digest_polynomials[1]>>

\* challenge = (digest_polynomials[0], digest_polynomials[1])
challenge_of(elems) ==
    LET digest_polynomials == Hasher_hash_elements(elems)
    IN  <<digest_polynomials[0], digest_polynomials[1]>>

\* Variant: only challenge.0 is pushed.
push_advice_one(challenge, elems) ==
    <<as_int(challenge[1])>> \o [k \in 1..Len(elems) |-> as_int(elems[k])]

\* advice_stack = vec![challenge.0.as_int(), challenge.1.as_int()] extended by
\* the polynomials, each element converted into u64.
push_advice(challenge, elems) ==
    <<as_int(challenge[1]), as_int(challenge[2])>>
    \o [k \in 1..Len(elems) |-> as_int(elems[k])]

---------------------------------------------------------------------------
(* The Client (miden_client::Client, an external crate) as the helpers see *)
(* it.  An output note the client tracks is "expected" once a transaction  *)
(* creating it was submitted, "onchain" once the node has committed it and *)
(* the client has not synced since, "committed" once a sync_state has seen *)
(* it: OutputNoteRecord::is_committed() holds of the last only.            *)

\* The number of notes created by earlier transactions of the client.
MaxNotes == 2

\* The client built by instantiate_client: nothing tracked yet.
NewClient == [notes |-> <<>>, accounts |-> <<>>, txs |-> <<>>]

\* NoteId of the k-th note the client came to track.
NoteId(k) == <<"note", k>>

\* submit_transaction of a transaction creating a note: the client tracks it.
TrackNote(cl) == [cl EXCEPT !.notes = Append(cl.notes, "expected")]

\* client.sync_state() returning Ok: what the node committed is now committed
\* in the store.
SyncState(cl) ==
    [cl EXCEPT !.notes = [k \in 1..Len(cl.notes) |->
                             IF cl.notes[k] = "onchain" THEN "committed"
                                                        ELSE cl.notes[k]]]

\* client.get_output_notes(NoteFilter::All) returning Ok: every tracked note,
\* with its id and whether it is committed.
GetOutputNotes(cl) ==
    [k \in 1..Len(cl.notes) |->
        [id |-> NoteId(k), is_committed |-> cl.notes[k] = "committed"]]

\* A Result is "Ok" or "Err"; a call on the client may return either.
Results == {"Ok", "Err"}

\* Variant: the error of an awaited call is dropped and the function goes on.
Try_ignored(result, next) == next

\* expr.await? : on Err the function returns the error, on Ok it goes on at next.
Try(result, next) == IF result = "Err" THEN "err" ELSE next

\* What a function returning Result<_, ClientError> returns on an error.
Err == [kind |-> "Err"]

\* The frame of a function after an awaited call with `?` returned `result`.
Awaited(frame, result, next) ==
    [frame EXCEPT !.last = result,
                  !.pc = Try(result, next),
                  !.result = IF Try(result, next) = "err" THEN Err ELSE @]

\* The Account built by create_basic_account / create_basic_faucet when the
\* client holds `cl.accounts`: a new id, and the account type of the builder.
NewAccount(cl, type) == [id |-> <<"account", Len(cl.accounts) + 1>>, type |-> type]

\* client.add_account(&account, Some(seed), false) returning Ok.
AddAccount(cl, account) == [cl EXCEPT !.accounts = Append(cl.accounts, account)]

\* client.submit_transaction(tx) returning Ok.
SubmitTransaction(cl, tx) == [cl EXCEPT !.txs = Append(cl.txs, tx)]

\* FungibleAsset::MAX_AMOUNT = 2^63 - 1 (miden-objects).
FungibleAsset_MAX_AMOUNT == <<255, 255, 255, 255, 255, 255, 255, 127>>

\* FungibleAsset::new(faucet_id, amount) is Ok: the id is that of a fungible
\* faucet and the amount is at most MAX_AMOUNT.
FungibleAsset_new_ok(faucet, amount) ==
    /\ faucet.type = "FungibleFaucet"
    /\ ~Less(FungibleAsset_MAX_AMOUNT, amount)

\* The amounts used: 0, 100 and 2^63 = MAX_AMOUNT + 1.
Zero == U64(0)
Hundred == U64(100)
TooBig == <<0, 0, 0, 0, 0, 0, 0, 128>>

---------------------------------------------------------------------------
(* Actions *)

Init ==
    /\ overflow_checks \in BOOLEAN
    /\ pc = "idle"
    /\ h = Polynomial(<<>>) /\ s2 = Polynomial(<<>>)
    /\ c = <<>>
    /\ i = 0
    /\ polynomials = <<>>
    /\ advice_stack = <<>>
    /\ panic = ""
    /\ remembered = [kind |-> "none"]
    /\ since = "same"
    /\ client = NewClient
    /\ wait = [pc |-> "off"]
    /\ setup = [pc |-> "off"]
    /\ mint = [pc |-> "off"]

\* A call generate_advice_stack_from_signature(ph, ps2) enters mul_modulo_p,
\* as the first call or after an earlier one has returned or panicked: every
\* local of the call is new.
Enter(ph, ps2) ==
    /\ pc \in {"idle", "returned", "panicked"}
    /\ h' = ph /\ s2' = ps2
    /\ c' = new_accumulator
    /\ i' = 0
    /\ polynomials' = <<>>
    /\ advice_stack' = <<>>
    /\ panic' = ""
    /\ pc' = "mul"
    /\ since' = IF since = "same" THEN "next" ELSE "later"
    /\ UNCHANGED <<overflow_checks, remembered>>
    /\ UNCHANGED client_vars

\* The first call of a run, with any pair of polynomials.
Call ==
    /\ pc = "idle"
    /\ \E ph \in Polynomials, ps2 \in Polynomials : Enter(ph, ps2)

\* One iteration of `for i in 0..N`.
MulStep ==
    /\ pc = "mul" /\ i < N
    /\ LET r == mul_row(c, h, s2, i, 0, overflow_checks)
       IN  /\ c' = r.c
           /\ panic' = r.panic
           /\ IF r.panic = "" THEN pc' = "mul" /\ i' = i + 1
                              ELSE pc' = "panicked" /\ i' = i
    /\ UNCHANGED <<overflow_checks, h, s2, polynomials, advice_stack, remembered,
                   since>>
    /\ UNCHANGED client_vars

\* mul_modulo_p returns c as pi; the polynomials are laid in order.
LayPolynomials ==
    /\ pc = "mul" /\ i = N
    /\ polynomials' = lay_polynomials(h, s2, c)
    /\ pc' = "hash"
    /\ UNCHANGED <<overflow_checks, h, s2, c, i, advice_stack, panic, remembered,
                   since>>
    /\ UNCHANGED client_vars

\* The challenge is drawn and the advice stack is returned.
PushAdvice ==
    /\ pc = "hash"
    /\ advice_stack' = push_advice(challenge_of(polynomials), polynomials)
    /\ pc' = "returned"
    /\ UNCHANGED <<overflow_checks, h, s2, c, i, polynomials, panic, remembered,
                   since>>
    /\ UNCHANGED client_vars

Next == Call \/ MulStep \/ LayPolynomials \/ PushAdvice

Spec == Init /\ [][Next]_vars

---------------------------------------------------------------------------
(* Two calls side by side: an observer keeps the arguments and the results *)
(* of one finished call while further calls are made.                      *)

ThisCall ==
    [kind |-> pc, h |-> h, s2 |-> s2, pi |-> c, advice_stack |-> advice_stack]

Remember ==
    /\ pc \in {"returned", "panicked"}
    /\ remembered # ThisCall
    /\ remembered' = ThisCall
    /\ since' = "same"
    /\ UNCHANGED <<overflow_checks, pc, h, s2, c, i, polynomials, advice_stack,
                   panic>>
    /\ UNCHANGED client_vars

\* A call, the first or a later one, with a pair of FewPolynomials.
CallFew ==
    /\ pc \in {"idle", "returned", "panicked"}
    /\ \E ph \in FewPolynomials, ps2 \in FewPolynomials : Enter(ph, ps2)

NextPair == CallFew \/ MulStep \/ LayPolynomials \/ PushAdvice \/ Remember

SpecPair == Init /\ [][NextPair]_vars

---------------------------------------------------------------------------
(* The node and earlier work of the client *)

\* No helper is running.
ClientIdle ==
    /\ wait.pc \in {"off", "ok", "err"}
    /\ setup.pc \in {"off", "ok", "err", "panicked"}
    /\ mint.pc \in {"off", "ok", "err", "panicked"}

\* A transaction of the client (such as create_public_note's) was submitted,
\* before any call of mint_from_faucet_for_account: its note is tracked.
CreateNote ==
    /\ ClientIdle
    /\ mint.pc = "off"
    /\ Len(client.notes) < MaxNotes
    /\ client' = TrackNote(client)
    /\ UNCHANGED <<wait, setup, mint>>
    /\ UNCHANGED advice_vars

\* The node commits a submitted note to a block.
NodeCommit ==
    /\ \E k \in 1..Len(client.notes) :
          /\ client.notes[k] = "expected"
          /\ client' = [client EXCEPT !.notes[k] = "onchain"]
    /\ UNCHANGED <<wait, setup, mint>>
    /\ UNCHANGED advice_vars

---------------------------------------------------------------------------
(* wait_for_note *)

\* Variant: the id of the note is not compared.
found_any_committed(notes, expected) ==
    \E k \in 1..Len(notes) : notes[k].is_committed

\* notes.iter().any(|output_note| output_note.id() == expected.id()
\*                                && output_note.is_committed())
found_in(notes, expected) ==
    \E k \in 1..Len(notes) : notes[k].id = expected /\ notes[k].is_committed

\* wait_for_note(client, expected) is entered, by `caller`.
WaitEnter(expected, caller) ==
    wait' = [pc |-> "sync", expected |-> expected, caller |-> caller,
             notes |-> <<>>, found |-> FALSE, last |-> "none", synced |-> FALSE,
             slept |-> FALSE]

\* A test calls wait_for_note for a note, tracked by the client or not.
WaitCall ==
    /\ ClientIdle
    /\ \E k \in 1..MaxNotes : WaitEnter(NoteId(k), "test")
    /\ UNCHANGED <<client, setup, mint>>
    /\ UNCHANGED advice_vars

\* client.sync_state().await?
WaitSync ==
    /\ wait.pc = "sync"
    /\ \E r \in Results :
          /\ client' = IF r = "Ok" THEN SyncState(client) ELSE client
          /\ wait' = [wait EXCEPT !.pc = Try(r, "get"), !.last = r,
                                  !.synced = (r = "Ok")]
    /\ UNCHANGED <<setup, mint>>
    /\ UNCHANGED advice_vars

\* let notes = client.get_output_notes(NoteFilter::All).await?
WaitGet ==
    /\ wait.pc = "get"
    /\ \E r \in Results :
          wait' = [wait EXCEPT !.pc = Try(r, "check"), !.last = r,
                               !.notes = IF r = "Ok" THEN GetOutputNotes(client)
                                                     ELSE @]
    /\ UNCHANGED <<client, setup, mint>>
    /\ UNCHANGED advice_vars

\* let found = ...; if found { break; } and the Ok(()) after the loop.
WaitCheck ==
    /\ wait.pc = "check"
    /\ LET found == found_in(wait.notes, wait.expected)
       IN  wait' = [wait EXCEPT !.found = found,
                                !.pc = IF found THEN "ok" ELSE "sleep"]
    /\ UNCHANGED <<client, setup, mint>>
    /\ UNCHANGED advice_vars

\* sleep(Duration::from_secs(3)).await, and the loop starts over.
WaitSleep ==
    /\ wait.pc = "sleep"
    /\ wait' = [wait EXCEPT !.pc = "sync", !.synced = FALSE, !.slept = TRUE]
    /\ UNCHANGED <<client, setup, mint>>
    /\ UNCHANGED advice_vars

\* A step of wait_for_note.
WaitStep == WaitSync \/ WaitGet \/ WaitCheck \/ WaitSleep

NextWait == CreateNote \/ NodeCommit \/ WaitCall \/ WaitSync \/ WaitGet
            \/ WaitCheck \/ WaitSleep

SpecWait == Init /\ [][NextWait]_vars

\* The task running wait_for_note is polled until it returns.
SpecWaitFair == SpecWait /\ WF_vars(WaitStep)

---------------------------------------------------------------------------
(* setup_accounts_and_faucets, with create_basic_account and               *)
(* create_basic_faucet                                                     *)

MaxAccounts == 2
MaxFaucets == 2

\* balances: Vec<Vec<u64>> with `rows` rows of `cols` entries, each 0 or unit.
BalanceMatrices(rows, cols, unit) == [1..rows -> [1..cols -> {Zero, unit}]]

\* Variant: the loop creating the faucets comes first.
AfterCreation_faucets_first(frame, n_done, m_done) ==
    IF m_done < frame.num_faucets THEN "create_faucet"
    ELSE IF n_done < frame.num_accounts THEN "create_account"
    ELSE "sync"

\* The next position once n_done accounts and m_done faucets are created:
\* the two creation loops, then the sync_state after them.
AfterCreation(frame, n_done, m_done) ==
    IF n_done < frame.num_accounts THEN "create_account"
    ELSE IF m_done < frame.num_faucets THEN "create_faucet"
    ELSE "sync"

\* setup_accounts_and_faucets(client, keystore, num_accounts, num_faucets,
\* balances) is entered.
SetupEnter(num_accounts, num_faucets, balances) ==
    LET frame == [pc |-> "entry", num_accounts |-> num_accounts,
                  num_faucets |-> num_faucets, balances |-> balances,
                  accounts |-> <<>>, faucets |-> <<>>,
                  acct_index |-> 0, faucet_index |-> 0,
                  tx_exec |-> [kind |-> "none"], last |-> "none",
                  result |-> [kind |-> "none"], trace |-> <<>>]
    IN  setup' = [frame EXCEPT !.pc = AfterCreation(frame, 0, 0)]

\* A caller passes counts and a balance matrix; the matrix may lack the last
\* row or the last column.
SetupCall ==
    /\ ClientIdle
    /\ setup.pc = "off"
    /\ \E num_accounts \in 0..MaxAccounts, num_faucets \in 0..MaxFaucets,
          unit \in {Hundred, TooBig} :
          \E rows \in {num_accounts - 1, num_accounts} \cap Nat,
             cols \in {num_faucets - 1, num_faucets} \cap Nat :
             \E balances \in BalanceMatrices(rows, cols, unit) :
                SetupEnter(num_accounts, num_faucets, balances)
    /\ UNCHANGED <<client, wait, mint>>
    /\ UNCHANGED advice_vars

\* create_basic_account / create_basic_faucet called with `?`, and the push:
\* client.add_account(..).await? and then keystore.add_key(..).unwrap().
Create(type, list) ==
    \E added \in Results, keyed \in Results :
       LET account == NewAccount(client, type)
           pushed == [setup EXCEPT ![list] = Append(@, account),
                                   !.trace = Append(@, [ev |-> list,
                                                        id |-> account.id])]
       IN  /\ client' = IF added = "Ok" THEN AddAccount(client, account)
                                        ELSE client
           /\ setup' =
                 IF added = "Ok" /\ keyed = "Err"
                 THEN [setup EXCEPT !.pc = "panicked", !.last = added]
                 ELSE IF added = "Ok"
                 THEN Awaited(pushed, added,
                              AfterCreation(pushed, Len(pushed.accounts),
                                            Len(pushed.faucets)))
                 ELSE Awaited(setup, added, "unreached")

CreateAccount ==
    /\ setup.pc = "create_account"
    /\ Create("RegularAccountUpdatableCode", "accounts")
    /\ UNCHANGED <<wait, mint>>
    /\ UNCHANGED advice_vars

CreateFaucet ==
    /\ setup.pc = "create_faucet"
    /\ Create("FungibleFaucet", "faucets")
    /\ UNCHANGED <<wait, mint>>
    /\ UNCHANGED advice_vars

\* client.sync_state().await? after the creation loops.
SetupSync ==
    /\ setup.pc = "sync"
    /\ \E r \in Results :
          /\ client' = IF r = "Ok" THEN SyncState(client) ELSE client
          /\ setup' = Awaited(setup, r, "pair")
    /\ UNCHANGED <<wait, mint>>
    /\ UNCHANGED advice_vars

\* Variant: the inner loop runs over the accounts, the outer over the faucets.
pair_after_by_column(frame) ==
    IF frame.acct_index + 1 < Len(frame.accounts)
    THEN [frame EXCEPT !.pc = "pair", !.acct_index = @ + 1]
    ELSE [frame EXCEPT !.pc = "pair", !.acct_index = 0, !.faucet_index = @ + 1]

\* The end of an iteration of the inner loop (its last statement or `continue`):
\* the next faucet of this account.
pair_after(frame) == [frame EXCEPT !.pc = "pair", !.faucet_index = @ + 1]

\* if amount_to_mint == 0 { continue; }
skips(amount) == amount = Zero

\* The head of the two loops: the next (account, faucet) pair, its balance,
\* and the mint request; Ok((accounts, faucets)) when the pairs are exhausted.
\* Indexing the balances out of range and FungibleAsset::new(..).unwrap()
\* panic.
SetupPair ==
    /\ setup.pc = "pair"
    /\ LET a == setup.acct_index
           f == setup.faucet_index
       IN  setup' =
             IF a >= Len(setup.accounts)
             THEN [setup EXCEPT !.pc = "ok",
                                !.result = [kind |-> "Ok",
                                            accounts |-> setup.accounts,
                                            faucets |-> setup.faucets]]
             ELSE IF f >= Len(setup.faucets)
             THEN [setup EXCEPT !.acct_index = @ + 1, !.faucet_index = 0]
             ELSE IF a + 1 > Len(setup.balances)
                     \/ f + 1 > Len(setup.balances[a + 1])
             THEN [setup EXCEPT !.pc = "panicked"]
             ELSE IF skips(setup.balances[a + 1][f + 1])
             THEN pair_after(setup)
             ELSE IF ~FungibleAsset_new_ok(setup.faucets[f + 1],
                                          setup.balances[a + 1][f + 1])
             THEN [setup EXCEPT !.pc = "panicked"]
             ELSE [setup EXCEPT !.pc = "mint_new"]
    /\ UNCHANGED <<client, wait, mint>>
    /\ UNCHANGED advice_vars

\* let tx_exec = client.new_transaction(faucet.id(), tx_req).await?
SetupMintNew ==
    /\ setup.pc = "mint_new"
    /\ \E r \in Results :
          setup' = [Awaited(setup, r, "mint_submit") EXCEPT
                      !.tx_exec = IF r = "Ok"
                                  THEN [kind |-> "mint",
                                        executor |-> setup.faucets[setup.faucet_index + 1].id,
                                        note |-> NoteId(Len(client.notes) + 1),
                                        script |-> FALSE]
                                  ELSE @]
    /\ UNCHANGED <<client, wait, mint>>
    /\ UNCHANGED advice_vars

\* client.submit_transaction(tx_exec.clone()).await?, the minted note taken
\* from tx_exec, and the call of wait_for_note.
SetupMintSubmit ==
    /\ setup.pc = "mint_submit"
    /\ \E r \in Results :
          /\ client' = IF r = "Ok"
                       THEN TrackNote(SubmitTransaction(client, setup.tx_exec))
                       ELSE client
          /\ setup' = [Awaited(setup, r, "wait") EXCEPT
                         !.trace = IF r = "Ok"
                                   THEN Append(@, [ev |-> "mint",
                                                   acct_index |-> setup.acct_index,
                                                   faucet_index |-> setup.faucet_index,
                                                   note |-> setup.tx_exec.note])
                                   ELSE @]
          /\ IF r = "Ok" THEN WaitEnter(setup.tx_exec.note, "setup")
                         ELSE UNCHANGED wait
    /\ UNCHANGED mint
    /\ UNCHANGED advice_vars

\* wait_for_note(client, &minted_note).await? has returned.
SetupWaited ==
    /\ setup.pc = "wait"
    /\ wait.caller = "setup"
    /\ wait.pc \in {"ok", "err"}
    /\ LET r == IF wait.pc = "ok" THEN "Ok" ELSE "Err"
       IN  setup' = [Awaited(setup, r, "sync_minted") EXCEPT
                       !.trace = IF r = "Ok"
                                 THEN Append(@, [ev |-> "observed",
                                                 acct_index |-> setup.acct_index,
                                                 faucet_index |-> setup.faucet_index,
                                                 note |-> wait.expected])
                                 ELSE @]
    /\ wait' = [pc |-> "off"]
    /\ UNCHANGED <<client, mint>>
    /\ UNCHANGED advice_vars

\* client.sync_state().await? after the wait; the consume request is built.
SetupSyncMinted ==
    /\ setup.pc = "sync_minted"
    /\ \E r \in Results :
          /\ client' = IF r = "Ok" THEN SyncState(client) ELSE client
          /\ setup' = Awaited(setup, r, "consume_new")
    /\ UNCHANGED <<wait, mint>>
    /\ UNCHANGED advice_vars

\* let tx_exec = client.new_transaction(account.id(), consume_req).await?
SetupConsumeNew ==
    /\ setup.pc = "consume_new"
    /\ \E r \in Results :
          setup' = [Awaited(setup, r, "consume_submit") EXCEPT
                      !.tx_exec = IF r = "Ok"
                                  THEN [kind |-> "consume",
                                        executor |-> setup.accounts[setup.acct_index + 1].id,
                                        note |-> setup.tx_exec.note,
                                        script |-> FALSE]
                                  ELSE @]
    /\ UNCHANGED <<client, wait, mint>>
    /\ UNCHANGED advice_vars

\* client.submit_transaction(tx_exec).await?
SetupConsumeSubmit ==
    /\ setup.pc = "consume_submit"
    /\ \E r \in Results :
          /\ client' = IF r = "Ok" THEN SubmitTransaction(client, setup.tx_exec)
                                   ELSE client
          /\ setup' = [Awaited(setup, r, "sync_consumed") EXCEPT
                         !.trace = IF r = "Ok"
                                   THEN Append(@, [ev |-> "consume",
                                                   acct_index |-> setup.acct_index,
                                                   faucet_index |-> setup.faucet_index,
                                                   note |-> setup.tx_exec.note])
                                   ELSE @]
    /\ UNCHANGED <<wait, mint>>
    /\ UNCHANGED advice_vars

\* client.sync_state().await? that ends the iteration.
SetupSyncConsumed ==
    /\ setup.pc = "sync_consumed"
    /\ \E r \in Results :
          /\ client' = IF r = "Ok" THEN SyncState(client) ELSE client
          /\ setup' = IF r = "Ok" THEN [pair_after(setup) EXCEPT !.last = r]
                                  ELSE Awaited(setup, r, "unreached")
    /\ UNCHANGED <<wait, mint>>
    /\ UNCHANGED advice_vars

NextSetup == SetupCall \/ CreateAccount \/ CreateFaucet \/ SetupSync
             \/ SetupPair \/ SetupMintNew \/ SetupMintSubmit \/ SetupWaited
             \/ SetupSyncMinted \/ SetupConsumeNew \/ SetupConsumeSubmit
             \/ SetupSyncConsumed \/ NodeCommit \/ WaitSync \/ WaitGet
             \/ WaitCheck \/ WaitSleep

SpecSetup == Init /\ [][NextSetup]_vars

---------------------------------------------------------------------------
(* mint_from_faucet_for_account *)

\* What a function returning Result<(), ClientError> returns on success.
Ok == [kind |-> "Ok"]

\* The client's own store: what the node committed since the last sync_state
\* is not in it yet.
StoreOf(cl) ==
    [cl EXCEPT !.notes = [k \in 1..Len(cl.notes) |->
                             IF cl.notes[k] = "onchain" THEN "expected"
                                                        ELSE cl.notes[k]]]

\* The accounts passed by the caller: `account` is a wallet, `faucet` is a
\* faucet or, the parameter being an &Account, any other account.
Wallet == [id |-> <<"account", 1>>, type |-> "RegularAccountUpdatableCode"]
Faucets ==
    { [id |-> <<"account", 2>>, type |-> "FungibleFaucet"],
      [id |-> <<"account", 2>>, type |-> "RegularAccountUpdatableCode"] }

\* Variant: the amount is not tested against 0.
returns_at_once_never(amount) == FALSE

\* if amount == 0 { return Ok(()); }
returns_at_once(amount) == amount = Zero

\* The frame after an awaited call on the client returned r, handled by `?`.
MintAwaited(call, r, next) ==
    [Awaited(mint, r, next) EXCEPT !.trace = Append(@, [call |-> call, result |-> r])]

\* mint_from_faucet_for_account(client, account, faucet, amount, tx_script)
\* is called; tx_script is Some (TRUE) or None (FALSE).
MintCall ==
    /\ ClientIdle
    /\ mint.pc = "off"
    /\ \E faucet \in Faucets, amount \in {Zero, Hundred, TooBig},
          tx_script \in BOOLEAN :
          mint' = [pc |-> "entry", account |-> Wallet, faucet |-> faucet,
                   amount |-> amount, tx_script |-> tx_script,
                   tx_exec |-> [kind |-> "none"], last |-> "none",
                   result |-> [kind |-> "none"], trace |-> <<>>,
                   entry_store |-> StoreOf(client)]
    /\ UNCHANGED <<client, wait, setup>>
    /\ UNCHANGED advice_vars

\* The test of the amount, and FungibleAsset::new(faucet.id(), amount).unwrap()
\* with the mint request.
MintEntry ==
    /\ mint.pc = "entry"
    /\ mint' = IF returns_at_once(mint.amount)
               THEN [mint EXCEPT !.pc = "ok", !.result = Ok]
               ELSE IF ~FungibleAsset_new_ok(mint.faucet, mint.amount)
               THEN [mint EXCEPT !.pc = "panicked"]
               ELSE [mint EXCEPT !.pc = "mint_new"]
    /\ UNCHANGED <<client, wait, setup>>
    /\ UNCHANGED advice_vars

\* let mint_exec = client.new_transaction(faucet.id(), mint_req).await?
MintNew ==
    /\ mint.pc = "mint_new"
    /\ \E r \in Results :
          mint' = [MintAwaited("new_transaction", r, "mint_submit") EXCEPT
                     !.tx_exec = IF r = "Ok"
                                 THEN [kind |-> "mint",
                                       executor |-> mint.faucet.id,
                                       note |-> NoteId(Len(client.notes) + 1),
                                       script |-> FALSE]
                                 ELSE @]
    /\ UNCHANGED <<client, wait, setup>>
    /\ UNCHANGED advice_vars

\* client.submit_transaction(mint_exec.clone()).await?, the minted note and
\* the consume request.
MintSubmit ==
    /\ mint.pc = "mint_submit"
    /\ \E r \in Results :
          /\ client' = IF r = "Ok"
                       THEN TrackNote(SubmitTransaction(client, mint.tx_exec))
                       ELSE client
          /\ mint' = MintAwaited("submit_transaction", r, "consume_new")
    /\ UNCHANGED <<wait, setup>>
    /\ UNCHANGED advice_vars

\* consume_req: the minted note as unauthenticated input, with
\* .custom_script(script) when tx_script is Some(script).
consume_req(note, tx_script) == [note |-> note, script |-> tx_script]

\* client.new_transaction(account.id(), consume_req).await.unwrap()
MintConsumeNew ==
    /\ mint.pc = "consume_new"
    /\ \E r \in Results :
          LET req == consume_req(mint.tx_exec.note, mint.tx_script)
              next == [mint EXCEPT
                         !.last = r,
                         !.trace = Append(@, [call |-> "new_transaction",
                                              result |-> r])]
          IN  mint' = IF r = "Err"
                      THEN [next EXCEPT !.pc = "panicked"]
                      ELSE [next EXCEPT !.pc = "consume_submit",
                                        !.tx_exec = [kind |-> "consume",
                                                     executor |-> mint.account.id,
                                                     note |-> req.note,
                                                     script |-> req.script]]
    /\ UNCHANGED <<client, wait, setup>>
    /\ UNCHANGED advice_vars

\* client.submit_transaction(consume_exec.clone()).await?
MintConsumeSubmit ==
    /\ mint.pc = "consume_submit"
    /\ \E r \in Results :
          /\ client' = IF r = "Ok" THEN SubmitTransaction(client, mint.tx_exec)
                                   ELSE client
          /\ mint' = MintAwaited("submit_transaction", r, "sync")
    /\ UNCHANGED <<wait, setup>>
    /\ UNCHANGED advice_vars

\* client.sync_state().await? and Ok(())
MintSync ==
    /\ mint.pc = "sync"
    /\ \E r \in Results :
          /\ client' = IF r = "Ok" THEN SyncState(client) ELSE client
          /\ mint' = [MintAwaited("sync_state", r, "ok") EXCEPT
                        !.result = IF r = "Ok" THEN Ok ELSE @]
    /\ UNCHANGED <<wait, setup>>
    /\ UNCHANGED advice_vars

NextMint == CreateNote \/ NodeCommit \/ MintCall \/ MintEntry \/ MintNew
            \/ MintSubmit \/ MintConsumeNew \/ MintConsumeSubmit \/ MintSync

SpecMint == Init /\ [][NextMint]_vars

---------------------------------------------------------------------------
(* Properties *)

ValidLength(p) == Len(p.coefficients) = N

\* A call is under way or over, and both polynomials have N coefficients.
ValidCall == pc # "idle" /\ ValidLength(h) /\ ValidLength(s2)

\* mul_modulo_p has returned: c is the pi of the call.
MulReturned == (pc = "mul" /\ i = N) \/ pc \in {"hash", "returned"}

\* Digits enough for a sum of N products of two u64.
Wide == 2 * Limbs + 2

\* The mathematical sum of as_int(a[j]) * as_int(b[k]) over j + k = idx with
\* j, k in [0, n), from j on, as digit weights.
RECURSIVE ProductWeights(_, _, _, _, _)
ProductWeights(a, b, idx, j, n) ==
    IF j = n THEN [d \in 1..Wide |-> 0]
    ELSE LET k    == idx - j
             rest == ProductWeights(a, b, idx, j + 1, n)
         IN  IF k >= 0 /\ k < n
             THEN LET p == Extend(MulExact(as_int(a.coefficients[j + 1]),
                                           as_int(b.coefficients[k + 1])), Wide)
                  IN  [d \in 1..Wide |-> p[d] + rest[d]]
             ELSE rest

ExactEntry(a, b, idx, n) == Propagate(ProductWeights(a, b, idx, 0, n), 0, Wide)

\* The polynomial with the small coefficients ns.
SmallPolynomial(ns) == Polynomial([k \in 1..Len(ns) |-> Felt_new(U64(ns[k]))])

\* r is the canonical representative of u modulo M.
CanonicalOf(r, u) ==
    /\ Less(r, M)
    /\ r = u \/ AddExact(r, M, Limbs + 1) = Extend(u, Limbs + 1)

IdentityPolynomial == SmallPolynomial([k \in 1..N |-> IF k = 1 THEN 1 ELSE 0])
ZeroPolynomial == SmallPolynomial([k \in 1..N |-> 0])

\* The tape from entry 2 on.
Payload(tape) == SubSeq(tape, 3, Len(tape))

\* C1: for polynomials a, b of N coefficients mul_modulo_p returns 2N entries,
\* entry i the sum of as_int(a[j]) * as_int(b[k]) over j + k = i (the last
\* entry 0); with N = 4, [1,2,3,4] and [5,6,7,8] give
\* [5, 16, 34, 60, 61, 52, 32, 0].
C1_ConvolutionIsExactSum ==
    /\ ValidCall => pc # "panicked"
    /\ ValidCall /\ MulReturned =>
          /\ Len(c) = 2 * N
          /\ \A idx \in 0..(2 * N - 1) :
                Extend(c[idx + 1], Wide) = ExactEntry(h, s2, idx, N)
          /\ c[2 * N] = U64(0)
    /\ N = 4 =>
          mul_modulo_p(SmallPolynomial(<<1, 2, 3, 4>>),
                       SmallPolynomial(<<5, 6, 7, 8>>), overflow_checks)
          = [panic |-> "",
             c |-> [k \in 1..8 |-> U64(<<5, 16, 34, 60, 61, 52, 32, 0>>[k])]]

\* C2: the tape returned for h, s2 of N coefficients holds the two challenge
\* integers at entries 0 and 1, the canonical integers of h at [2, 2+N), those
\* of s2 at [2+N, 2+2N), and at [2+2N, 2+4N) the entries of mul_modulo_p(h, s2)
\* in order, each reduced modulo the field modulus.
C2_TapeLayout ==
    (pc = "returned" /\ ValidLength(h) /\ ValidLength(s2)) =>
        /\ advice_stack[1] = as_int(Hasher_hash_elements(polynomials)[0])
        /\ advice_stack[2] = as_int(Hasher_hash_elements(polynomials)[1])
        /\ \A k \in 1..N : advice_stack[2 + k] = as_int(h.coefficients[k])
        /\ \A k \in 1..N : advice_stack[2 + N + k] = as_int(s2.coefficients[k])
        /\ \A k \in 1..(2 * N) : CanonicalOf(advice_stack[2 + 2 * N + k], c[k])

\* A tape is returned whose convolution part holds an entry that had to be
\* reduced modulo M.
C2_Witness ==
    /\ pc = "returned" /\ ValidLength(h) /\ ValidLength(s2)
    /\ h # s2
    /\ \E k \in 1..(2 * N) :
          ~Less(c[k], M) /\ advice_stack[2 + 2 * N + k] # c[k]

\* C3: the tape returned for h, s2 of N coefficients has 2 + 4N entries.
C3_TapeLength ==
    (pc = "returned" /\ ValidLength(h) /\ ValidLength(s2)) =>
        Len(advice_stack) = 2 + 4 * N

\* A tape of 2 + 4N entries is returned by a build with overflow checks.
C3_Witness ==
    /\ pc = "returned" /\ ValidLength(h) /\ ValidLength(s2)
    /\ overflow_checks
    /\ Len(advice_stack) = 2 + 4 * N

\* C4: entries 0 and 1 of the tape are the first two outputs of the hash of
\* the one sequence h ++ s2 ++ (convolution entries as field elements), which
\* is the sequence of the 4N entries after them; so two calls whose tapes agree
\* from entry 2 on agree at entries 0 and 1.
C4_ChallengeBindsPayload ==
    /\ pc = "returned" =>
          LET payload == Payload(advice_stack)
              elems   == [k \in 1..Len(payload) |-> Felt_new(payload[k])]
          IN  /\ Len(payload) = 4 * N
              /\ elems = h.coefficients \o s2.coefficients
                         \o [k \in 1..(2 * N) |-> Felt_new(c[k])]
              /\ advice_stack[1] = as_int(Hasher_hash_elements(elems)[0])
              /\ advice_stack[2] = as_int(Hasher_hash_elements(elems)[1])
    /\ ( /\ pc = "returned" /\ remembered.kind = "returned" /\ since # "same"
         /\ Payload(advice_stack) = Payload(remembered.advice_stack) ) =>
          /\ advice_stack[1] = remembered.advice_stack[1]
          /\ advice_stack[2] = remembered.advice_stack[2]

\* A later call has returned a tape with the payload of the remembered one,
\* the payload holding a reduced convolution entry.
C4_Witness ==
    /\ pc = "returned" /\ remembered.kind = "returned" /\ since # "same"
    /\ Payload(advice_stack) = Payload(remembered.advice_stack)
    /\ advice_stack[1] = remembered.advice_stack[1]
    /\ \E k \in 1..(2 * N) : ~Less(c[k], M)

\* C5: with N coefficients, each any canonical field element, no
\* as_int(a[i]) * as_int(b[j]) and no c[i+j] += ... of mul_modulo_p exceeds
\* the u64: nothing overflows or wraps and nothing fails.
C5_NoOverflow ==
    /\ ValidCall => panic = ""
    /\ (ValidCall /\ pc = "mul" /\ i < N) =>
          \A j \in 0..(N - 1) :
             LET p == MulExact(as_int(h.coefficients[i + 1]),
                               as_int(s2.coefficients[j + 1]))
             IN  /\ ~Exceeds(p, Limbs)
                 /\ ~Exceeds(AddExact(c[i + j + 1], p, Wide), Limbs)

\* C6: given a polynomial whose number of coefficients is not N, the function
\* fails with InvalidPolynomialLength before computing anything: it returns no
\* tape computed from the first N coefficients of a longer input, and no tape
\* of a length other than 2 + 4N.
C6_InvalidLengthRejected ==
    pc = "returned" =>
        /\ ValidLength(h) /\ ValidLength(s2)
        /\ Len(advice_stack) = 2 + 4 * N

\* C7: two calls with the same h and s2, other calls between them or not,
\* end the same way and return the same tape, entry for entry.
C7_Deterministic ==
    ( /\ remembered.kind # "none" /\ since # "same"
      /\ pc \in {"returned", "panicked"}
      /\ remembered.h = h /\ remembered.s2 = s2 ) =>
        /\ remembered.kind = pc
        /\ remembered.advice_stack = advice_stack

\* The remembered call, another call, and then a call with the arguments of
\* the remembered one, which returns the remembered tape.
C7_Witness ==
    /\ remembered.kind = "returned" /\ since = "later"
    /\ pc = "returned"
    /\ remembered.h = h /\ remembered.s2 = s2
    /\ remembered.advice_stack = advice_stack
    /\ Len(advice_stack) = 2 + 4 * N

\* C8: mul_modulo_p(a, b) and mul_modulo_p(b, a) agree at each of the 2N
\* indices.
C8_Commutative ==
    ( /\ remembered.kind = "returned" /\ since # "same"
      /\ MulReturned
      /\ remembered.h = s2 /\ remembered.s2 = h ) =>
        /\ Len(c) = 2 * N
        /\ \A k \in 1..(2 * N) : c[k] = remembered.pi[k]

\* mul_modulo_p has returned for (a, b) and for (b, a), a # b.
C8_Witness ==
    /\ remembered.kind = "returned" /\ since # "same"
    /\ pc = "returned"
    /\ remembered.h = s2 /\ remembered.s2 = h /\ h # s2
    /\ c = remembered.pi
    /\ \E k \in 1..(2 * N) : c[k] # U64(0)

\* C9: with h = [1, 0, ..., 0] and s2 of N coefficients, mul_modulo_p(h, s2)[i]
\* is as_int(s2[i]) for i in [0, N) and 0 for i in [N, 2N); the tape repeats
\* its segment [2+N, 2+2N) at [2+2N, 2+3N) and is zero at [2+3N, 2+4N).
C9_IdentityPolynomial ==
    (pc # "idle" /\ h = IdentityPolynomial /\ ValidLength(s2)) =>
        /\ pc # "panicked"
        /\ MulReturned =>
              \A k \in 1..N :
                 c[k] = as_int(s2.coefficients[k]) /\ c[N + k] = U64(0)
        /\ pc = "returned" =>
              \A k \in 1..N :
                 /\ advice_stack[2 + 2 * N + k] = advice_stack[2 + N + k]
                 /\ advice_stack[2 + 3 * N + k] = U64(0)

\* The tape is returned for h = [1, 0, ..., 0] and an s2 with a coefficient
\* other than 0 and 1 past index 0.
C9_Witness ==
    /\ pc = "returned" /\ h = IdentityPolynomial /\ ValidLength(s2)
    /\ \E k \in 2..N : s2.coefficients[k] \notin {Felt_new(U64(0)), Felt_new(U64(1))}

\* C10: when h or s2 is the zero polynomial (the other of N coefficients),
\* mul_modulo_p returns 2N zeros, the tape is zero at [2+2N, 2+4N), and the
\* challenge is the first two hash outputs of h ++ s2 ++ (2N zeros).
C10_ZeroPolynomial ==
    (ValidCall /\ (h = ZeroPolynomial \/ s2 = ZeroPolynomial)) =>
        /\ pc # "panicked"
        /\ MulReturned => c = [k \in 1..(2 * N) |-> U64(0)]
        /\ pc = "returned" =>
              LET zeros  == [k \in 1..(2 * N) |-> Felt_new(U64(0))]
                  digest == Hasher_hash_elements(
                               h.coefficients \o s2.coefficients \o zeros)
              IN  /\ \A k \in 1..(2 * N) : advice_stack[2 + 2 * N + k] = U64(0)
                  /\ advice_stack[1] = as_int(digest[0])
                  /\ advice_stack[2] = as_int(digest[1])

\* The tape is returned for a zero s2 and an h with large coefficients.
C10_Witness ==
    /\ pc = "returned" /\ s2 = ZeroPolynomial /\ ValidLength(h)
    /\ \A k \in 1..N : h.coefficients[k] \notin {Felt_new(U64(0)), Felt_new(U64(1))}

\* C11: wait_for_note returns Ok only after a poll whose sync_state succeeded
\* and whose output notes hold a committed note with the id of the expected
\* one; an uncommitted note of that id, or a committed note of another id,
\* does not make it return Ok.
C11_OkOnlyWhenCommitted ==
    wait.pc = "ok" =>
        /\ wait.synced /\ wait.last = "Ok"
        /\ \E k \in 1..Len(wait.notes) :
              /\ wait.notes[k].id = wait.expected
              /\ wait.notes[k].is_committed
              /\ client.notes[k] = "committed"

\* wait_for_note has returned Ok while the client also tracks another note,
\* one that is not committed.
C11_Witness ==
    /\ wait.pc = "ok"
    /\ \E k \in 1..Len(wait.notes) :
          wait.notes[k].id # wait.expected /\ ~wait.notes[k].is_committed



\* The positions in the trace of setup_accounts_and_faucets of the events `ev`.
EventsAt(ev) == {k \in 1..Len(setup.trace) : setup.trace[k].ev = ev}

\* C12: when setup_accounts_and_faucets returns Ok, the returned lists hold
\* the num_accounts accounts and the num_faucets faucets in the order of their
\* creation; every account is created before any faucet and every faucet
\* before any mint transaction; when a client call fails the function returns
\* the error, without lists.
C12_ListsAndCreationOrder ==
    /\ setup.pc = "ok" =>
          /\ setup.result.kind = "Ok"
          /\ Len(setup.result.accounts) = setup.num_accounts
          /\ Len(setup.result.faucets) = setup.num_faucets
          /\ setup.result.accounts \o setup.result.faucets = client.accounts
          /\ \A k \in 1..Len(setup.result.accounts) :
                setup.result.accounts[k].type = "RegularAccountUpdatableCode"
          /\ \A k \in 1..Len(setup.result.faucets) :
                setup.result.faucets[k].type = "FungibleFaucet"
    /\ setup.pc \notin {"off"} =>
          /\ \A x \in EventsAt("accounts"), y \in EventsAt("faucets") : x < y
          /\ \A y \in EventsAt("faucets"), z \in EventsAt("mint") : y < z
          /\ \A x \in EventsAt("accounts"), z \in EventsAt("mint") : x < z
          /\ setup.last = "Err" => setup.pc = "err"
          /\ setup.pc = "err" => setup.result = Err

\* setup_accounts_and_faucets has returned Ok for two accounts and two
\* faucets after minting.
C12_Witness ==
    /\ setup.pc = "ok"
    /\ setup.num_accounts = 2 /\ setup.num_faucets = 2
    /\ EventsAt("mint") # {}


\* The events of the pair loop in the trace, in order.
PairEvents == SelectSeq(setup.trace, LAMBDA e : e.ev \in {"mint", "observed", "consume"})

\* Event e concerns the same pair and note as event d.
SamePair(d, e) ==
    /\ d.acct_index = e.acct_index
    /\ d.faucet_index = e.faucet_index
    /\ d.note = e.note

\* Pair d comes before pair e in row-major order.
RowMajorBefore(d, e) ==
    \/ d.acct_index < e.acct_index
    \/ d.acct_index = e.acct_index /\ d.faucet_index < e.faucet_index

\* The balance of the pair of event e.
BalanceOf(e) == setup.balances[e.acct_index + 1][e.faucet_index + 1]

\* C13: in setup_accounts_and_faucets the mint of a pair is submitted from the
\* faucet, then wait_for_note observes the minted note committed, then the
\* consume is submitted from the account, never earlier; the pairs are handled
\* one after another in row-major order, a pair with balance 0 causes no
\* transaction, and at the Ok return every pair with a non-zero balance has
\* been minted and consumed.
C13_MintWaitConsumeOrder ==
    setup.pc # "off" =>
      LET es == PairEvents
          txs == SelectSeq(es, LAMBDA e : e.ev # "observed")
      IN  /\ \A k \in 1..Len(es) :
                /\ es[k].ev = "mint" =>
                      /\ k > 1 => /\ es[k - 1].ev = "consume"
                                  /\ RowMajorBefore(es[k - 1], es[k])
                      /\ BalanceOf(es[k]) # Zero
                /\ es[k].ev = "observed" =>
                      /\ k > 1 /\ es[k - 1].ev = "mint" /\ SamePair(es[k - 1], es[k])
                      /\ \E n \in 1..Len(client.notes) :
                            NoteId(n) = es[k].note /\ client.notes[n] = "committed"
                /\ es[k].ev = "consume" =>
                      k > 1 /\ es[k - 1].ev = "observed" /\ SamePair(es[k - 1], es[k])
          /\ Len(client.txs) = Len(txs)
          /\ \A k \in 1..Len(txs) :
                /\ client.txs[k].kind = txs[k].ev
                /\ client.txs[k].note = txs[k].note
                /\ client.txs[k].executor =
                      IF txs[k].ev = "mint"
                      THEN setup.faucets[txs[k].faucet_index + 1].id
                      ELSE setup.accounts[txs[k].acct_index + 1].id
          /\ setup.pc = "ok" =>
                \A a \in 1..setup.num_accounts, f \in 1..setup.num_faucets :
                   setup.balances[a][f] # Zero =>
                      \E k \in 1..Len(es) : /\ es[k].ev = "consume"
                                            /\ es[k].acct_index = a - 1
                                            /\ es[k].faucet_index = f - 1

\* setup_accounts_and_faucets has returned Ok after minting for both accounts
\* from both faucets, one pair having balance 0.
C13_Witness ==
    /\ setup.pc = "ok"
    /\ Len(PairEvents) = 9
    /\ \E a \in 1..2, f \in 1..2 : setup.balances[a][f] = Zero


\* wait_for_note is running.
Waiting == wait.pc \in {"sync", "get", "check", "sleep"}

\* The expected note is committed on the node, seen by the client or not yet.
ExpectedOnChain ==
    \E n \in 1..Len(client.notes) :
       NoteId(n) = wait.expected /\ client.notes[n] \in {"onchain", "committed"}

\* The expected note is committed in the client's output notes.
ExpectedCommitted ==
    \E n \in 1..Len(client.notes) :
       NoteId(n) = wait.expected /\ client.notes[n] = "committed"

\* C14: wait_for_note returns only with Ok when the expected note is
\* committed in the output notes, or with the error of a failed sync_state or
\* get_output_notes; a failed call makes it return that error without another
\* poll; and, polled fairly, once the note is committed on the node it
\* returns, with Ok unless a call failed.
C14_BlocksUntilCommitted ==
    /\ [](wait.pc = "ok" => ExpectedCommitted /\ wait.last = "Ok")
    /\ [](wait.pc = "err" => wait.last = "Err")
    /\ [](wait.pc # "off" /\ wait.last = "Err" => wait.pc = "err")
    /\ [][wait.pc \in {"ok", "err"} /\ wait' # wait => wait'.last = "none"]_vars
    /\ (Waiting /\ ExpectedOnChain) ~> (wait.pc \in {"ok", "err"})

\* wait_for_note has returned Ok after at least one sleep.
C14_Witness == wait.pc = "ok" /\ wait.slept /\ ExpectedCommitted


\* mint_from_faucet_for_account has returned or panicked.
MintOver == mint.pc \in {"ok", "err", "panicked"}

\* Every call mint_from_faucet_for_account made on the client returned Ok.
MintCallsSucceeded == \A k \in 1..Len(mint.trace) : mint.trace[k].result = "Ok"

\* The transactions the client submitted since mint_from_faucet_for_account
\* was entered.
MintSubmitted == SubSeq(client.txs, Len(mint.entry_store.txs) + 1, Len(client.txs))

\* The amount 0: Ok, no call on the client, the client's store as it was.
MintNothing ==
    /\ mint.pc = "ok"
    /\ mint.trace = <<>>
    /\ StoreOf(client) = mint.entry_store

\* Two transactions, the mint by the faucet and then the consume of the
\* minted note by the account, scripted exactly when tx_script is Some, and
\* one sync_state after them; the function returns Ok.
MintTwoTransactions ==
    /\ mint.pc = "ok"
    /\ [k \in 1..Len(mint.trace) |-> mint.trace[k].call] =
          <<"new_transaction", "submit_transaction",
            "new_transaction", "submit_transaction", "sync_state">>
    /\ Len(MintSubmitted) = 2
    /\ MintSubmitted[1].kind = "mint"
    /\ MintSubmitted[1].executor = mint.faucet.id
    /\ ~MintSubmitted[1].script
    /\ MintSubmitted[2].kind = "consume"
    /\ MintSubmitted[2].executor = mint.account.id
    /\ MintSubmitted[2].note = MintSubmitted[1].note
    /\ MintSubmitted[2].script = mint.tx_script

===========================================================================
